---- MODULE Spec2Model ----
(***************************************************************************)
(* Model of the supervised-job subsystem of bucknercd/jobworker:           *)
(* joblib.Job (Start, Stop, Wait, failStart, doWait, waitForExit) of       *)
(* src/internal/cgroups/cgroups.go.  One Job is shared by a bounded number  *)
(* of concurrent Start callers, Stop callers and Wait callers plus the     *)
(* waiter goroutine that Start launches.  Every access to a shared field   *)
(* of the Job is one step, so that all interleavings of the callers are    *)
(* explored.                                                               *)
(*                                                                         *)
(* The registry manager.Manager (StartJob, StopJob, GetStatus, getJob) of  *)
(* src/internal/manager/manager.go is modelled next to it, with a bounded  *)
(* number of concurrent requests; there a Job is seen from outside, by     *)
(* the results of its Start and Stop.                                      *)
(*                                                                         *)
(* The functions that read no shared state (mapStatus, translateLimits,    *)
(* NewJob) are applied to arguments drawn from bounded sets.               *)
(***************************************************************************)
EXTENDS Integers, FiniteSets, Sequences, TLC

\* ---------------------------------------------------------------- bounds
NStartCalls == 2
NStopCalls == 2
NWaitCalls == 2
NStartJobCalls == 2
NLookupCalls == 1
StatusArgBound == 20

\* ------------------------------------------------------------- constants
StatusUnknown == 0
StatusStarted == 1
StatusRunning == 2
StatusExited == 3
StatusStopped == 4
StatusFailed == 5

exitCodeUnknown == -10
exitCodeFailedToStart == -11
exitCodeFailedCgroup == -12
exitCodeKilledBySignal == -13

\* ---------------------------------------------------------------- tasks
StartCalls == {<<"start", i>> : i \in 1..NStartCalls}
StopCalls == {<<"stop", i>> : i \in 1..NStopCalls}
WaitCalls == {<<"wait", i>> : i \in 1..NWaitCalls}
waitForExit == <<"waiter", 1>>
Tasks == StartCalls \cup StopCalls \cup WaitCalls \cup {waitForExit}

\* requests to the registry: StartJob calls, and calls that read the map
\* (StopJob, GetStatus or DebugDump, chosen when the call is made)
StartJobCalls == {<<"StartJob", i>> : i \in 1..NStartJobCalls}
LookupCalls == {<<"lookup", i>> : i \in 1..NLookupCalls}
Requests == StartJobCalls \cup LookupCalls

\* Identifiers are numbers: 0 stands for the empty string, i for the UUID
\* that the i-th StartJob call generates.  A Job is named by its identifier,
\* 0 standing for the nil *Job.
EmptyId == 0
NilJob == 0
Ids == 1..NStartJobCalls
RequestIds == {EmptyId} \cup Ids
Executables == {"", "ls"}

VARIABLES
  status,      \* Job.status (atomic int32)
  exitCode,    \* Job.exitCode (atomic int32)
  stopped,     \* Job.stopped (atomic.Bool)
  waitOnce,    \* Job.waitOnce: "free", "busy" (f is running), "done"
  doneCh,      \* Job.doneCh: "open" or "closed"
  cgManager,   \* Job.cgManager # nil
  cgroup,      \* the directory /sys/fs/cgroup/jobs/<id> exists
  stdoutFile,  \* Job.stdoutFile: "nil", "open", "closed"
  stderrFile,  \* Job.stderrFile: "nil", "open", "closed"
  process,     \* Job.cmd.Process # nil
  child,       \* the child process: "none", "running", "zombie", "reaped"
  childHow,    \* how the child ended: "na", "exit", "signal"
  pc,          \* position of every task
  ret,         \* result of every call: "none", "nil", "err", "invalid"
  loc,         \* locals of every task
  cnt,         \* history: number of times each operation was performed
  jobs,        \* Manager.jobs: the Job mapped to each identifier, or NilJob
  mu,          \* Manager.mu: [w: write-locked, r: number of read locks]
  mpc,         \* position of every request
  mloc,        \* locals of every request
  mret,        \* gRPC code returned to every request, "none" until then
  jobObjs,     \* the Jobs made by StartJob: what was called on each
  fcall,       \* a function and the arguments it is applied to
  fout         \* <<>> until the function has returned, then <<its result>>

vars == <<status, exitCode, stopped, waitOnce, doneCh, cgManager, cgroup,
          stdoutFile, stderrFile, process, child, childHow, pc, ret, loc, cnt,
          jobs, mu, mpc, mloc, mret, jobObjs, fcall, fout>>

regVars == <<jobs, mu, mpc, mloc, mret, jobObjs>>

fnVars == <<fcall, fout>>

jobVars == <<status, exitCode, stopped, waitOnce, doneCh, cgManager, cgroup,
             stdoutFile, stderrFile, process, child, childHow>>

NoLocals == [code |-> 0, wres |-> "none", flag |-> FALSE, errs |-> FALSE,
             to |-> 0, won |-> FALSE, onRunning |-> FALSE,
             onTerminal |-> FALSE, hit |-> FALSE, kerr |-> FALSE,
             cg |-> FALSE, out |-> FALSE, err |-> FALSE, spawned |-> FALSE,
             badKey |-> FALSE, casFail |-> FALSE]

NoCounts == [kills |-> 0, deletes |-> 0, creates |-> 0, spawns |-> 0,
             closes |-> 0, bodies |-> 0, outClose |-> 0, errClose |-> 0,
             guards |-> 0, waiters |-> 0, codes |-> 0,
             undeleted |-> 0]

\* NewJob: status Unknown, exit code -10, doneCh open, nothing created.
NoRequestLocals == [rpc |-> "none", exe |-> "", id |-> EmptyId,
                    job |-> NilJob, err |-> FALSE, n |-> 0,
                    task |-> 0, st |-> "none", ec |-> 0]

NoCalls == [made |-> FALSE, started |-> "none", stops |-> 0]

\* arguments of the functions: a status word, an identifier, an executable,
\* and a limit request (absent, or its cpu and memory fields)
NoFnCall == [fn |-> "none", s |-> 0, id |-> EmptyId, exe |-> "",
             l |-> FALSE, cpu |-> "", mem |-> ""]
StatusArgs == (0 - StatusArgBound)..StatusArgBound
CpuArgs == {"", "max", "500m", "2"}
MemArgs == {"", "max", "64M"}
FnInputs ==
  {[NoFnCall EXCEPT !.fn = "mapStatus", !.s = n] : n \in StatusArgs}
  \cup {[NoFnCall EXCEPT !.fn = "NewJob", !.id = i, !.exe = e] :
          i \in {EmptyId, 1}, e \in Executables}
  \cup {[NoFnCall EXCEPT !.fn = "translateLimits"]}
  \cup {[NoFnCall EXCEPT !.fn = "translateLimits", !.l = TRUE,
                         !.cpu = c, !.mem = m] : c \in CpuArgs, m \in MemArgs}

InitState ==
  /\ status = StatusUnknown
  /\ exitCode = exitCodeUnknown
  /\ stopped = FALSE
  /\ waitOnce = "free"
  /\ doneCh = "open"
  /\ cgManager = FALSE
  /\ cgroup = FALSE
  /\ stdoutFile = "nil"
  /\ stderrFile = "nil"
  /\ process = FALSE
  /\ child = "none"
  /\ childHow = "na"
  /\ pc = [t \in Tasks |->
             IF t \in StartCalls THEN "s_guard"
             ELSE IF t \in StopCalls THEN "p_flag"
             ELSE IF t \in WaitCalls THEN "wait"
             ELSE "idle"]
  /\ ret = [t \in Tasks |-> "none"]
  /\ loc = [t \in Tasks |-> NoLocals]
  /\ cnt = NoCounts
  /\ jobs = [i \in Ids |-> NilJob]
  /\ mu = [w |-> FALSE, r |-> 0]
  /\ mpc = [t \in Requests |-> "call"]
  /\ mloc = [t \in Requests |-> NoRequestLocals]
  /\ mret = [t \in Requests |-> "none"]
  /\ jobObjs = [i \in Ids |-> NoCalls]

Init ==
  /\ InitState
  /\ fcall = NoFnCall
  /\ fout = <<>>

\* ------------------------------------------------------------- helpers
Goto(t, l) == pc' = [pc EXCEPT ![t] = l]
Return(t, r) == pc' = [pc EXCEPT ![t] = "ret"] /\ ret' = [ret EXCEPT ![t] = r]
Count(f) == cnt' = [cnt EXCEPT ![f] = @ + 1]
SetLoc(t, f, v) == loc' = [loc EXCEPT ![t][f] = v]

\* The calls of one operation are interchangeable until they take their
\* first step, so they are numbered in the order in which they take it: call
\* i takes its first step (at label l) after the calls before it took theirs.
\* Every interleaving of the callers is one of these up to the numbering.
InOrder(t, l) == \A u \in Tasks : (u[1] = t[1] /\ u[2] < t[2]) => pc[u] # l

\* atomic.StoreInt32 on the status word and on the exit code
setStatus(s) == status' = s
setExitCode(c) == exitCode' = c

\* a compare-and-swap that stores without comparing
tryTransitionBlind(from, to, ok) ==
  /\ ok = TRUE
  /\ status' = to

\* atomic.CompareAndSwapInt32 on the status word; ok is its result
tryTransition(from, to, ok) ==
  /\ ok = (status = from)
  /\ status' = IF ok THEN to ELSE status

\* the limits a Job may hold (the keys only): none, or one with a key that
\* no cgroup interface file has
LimitKeys == {"cpu.max", "memory.max", "io.max"}
LimitLists == {<<>>, <<"io.rogue">>}
Supported(l) == \A i \in DOMAIN l : l[i] \in LimitKeys

\* CgroupManager.Create fails for a key outside LimitKeys, and may fail for
\* other reasons
CreateOutcomes(l) == IF Supported(l) THEN BOOLEAN ELSE {FALSE}

\* CgroupManager.Create: the directory exists afterwards iff it succeeded
Create(ok) ==
  /\ cgroup' = ok
  /\ cnt' = [cnt EXCEPT !.creates = @ + (IF ok THEN 1 ELSE 0),
                        !.undeleted = IF ok THEN 1 ELSE @]

\* CgroupManager.Delete: a missing directory is a success; removing the
\* directory kills (cgroup.kill) whatever still runs inside it
DeleteOutcomes == IF cgroup THEN {TRUE, FALSE} ELSE {TRUE}
Delete(ok) ==
  /\ cgroup' = IF ok THEN FALSE ELSE cgroup
  /\ child' = IF ok /\ cgroup /\ child = "running" THEN "zombie" ELSE child
  /\ childHow' = IF ok /\ cgroup /\ child = "running" THEN "signal" ELSE childHow
  /\ cnt' = [cnt EXCEPT !.deletes = @ + 1, !.undeleted = 0]

\* a latch that does not latch: f runs again for a caller that arrives after
\* f has returned
OnceDoRerun(t, body, skip) ==
  /\ waitOnce # "busy"
  /\ waitOnce' = "busy"
  /\ Goto(t, body)
  /\ Count("bodies")
  /\ UNCHANGED ret

\* a latch whose late callers do not wait for f to return
OnceDoNoBlock(t, body, skip) ==
  IF waitOnce = "free"
    THEN /\ waitOnce' = "busy"
         /\ Goto(t, body)
         /\ Count("bodies")
         /\ UNCHANGED ret
    ELSE /\ UNCHANGED <<waitOnce, cnt>>
         /\ skip

\* sync.Once.Do(f): the first caller runs f (at label body), a caller that
\* arrives while f runs blocks, a caller that arrives later skips f
OnceDo(t, body, skip) ==
  /\ waitOnce # "busy"
  /\ IF waitOnce = "free"
       THEN /\ waitOnce' = "busy"
            /\ Goto(t, body)
            /\ Count("bodies")
            /\ UNCHANGED ret
       ELSE /\ UNCHANGED <<waitOnce, cnt>>
            /\ skip

\* what the caller of waitOnce.Do does once Do has returned
AfterDo(t) ==
  IF t \in StartCalls THEN Return(t, "err")
  ELSE IF t \in StopCalls THEN Return(t, IF loc[t].errs THEN "err" ELSE "nil")
  ELSE Return(t, "nil")

\* ---------------------------------------------------------- Job.Start
\* line 149: the Unknown -> Started guard
StartGuard(t) ==
  /\ pc[t] = "s_guard"
  /\ InOrder(t, "s_guard")
  /\ \E ok \in BOOLEAN :
       /\ tryTransition(StatusUnknown, StatusStarted, ok)
       /\ IF ok THEN Goto(t, "s_newcg") /\ UNCHANGED ret
                ELSE Return(t, "invalid")
       /\ cnt' = [cnt EXCEPT !.guards = @ + (IF ok THEN 1 ELSE 0)]
  /\ UNCHANGED <<exitCode, stopped, waitOnce, doneCh, cgManager, cgroup,
                 stdoutFile, stderrFile, process, child, childHow, loc>>
  /\ UNCHANGED <<regVars, fnVars>>

\* line 153: j.cgManager = cgroups.NewCgroupManager(j.id)
StartNewCgroupManager(t) ==
  /\ pc[t] = "s_newcg"
  /\ cgManager' = TRUE
  /\ Goto(t, "s_create")
  /\ UNCHANGED <<status, exitCode, stopped, waitOnce, doneCh, cgroup,
                 stdoutFile, stderrFile, process, child, childHow, ret, loc, cnt>>
  /\ UNCHANGED <<regVars, fnVars>>

\* line 155: j.cgManager.Create(j.id, j.limits); j.limits, set by NewJob,
\* is read here only, so its value is drawn here
StartCreate(t) ==
  /\ pc[t] = "s_create"
  /\ \E l \in LimitLists : \E ok \in CreateOutcomes(l) :
       /\ Create(ok)
       /\ Goto(t, IF ok THEN "s_open_out" ELSE "s_create_del")
       /\ loc' = [loc EXCEPT ![t].cg = ok, ![t].badKey = ~Supported(l)]
  /\ UNCHANGED <<status, exitCode, stopped, waitOnce, doneCh, cgManager,
                 stdoutFile, stderrFile, process, child, childHow, ret>>
  /\ UNCHANGED <<regVars, fnVars>>

\* a failed Create reported with the exit code of a failed spawn
StartCreateFailedWrongCode(t) ==
  /\ pc[t] = "s_create_del"
  /\ \E ok \in DeleteOutcomes : Delete(ok)
  /\ Goto(t, "fs_status")
  /\ SetLoc(t, "code", exitCodeFailedToStart)
  /\ UNCHANGED <<status, exitCode, stopped, waitOnce, doneCh, cgManager,
                 stdoutFile, stderrFile, process, ret>>
  /\ UNCHANGED <<regVars, fnVars>>

\* lines 156-160: Delete after a failed Create, then failStart(-12)
StartCreateFailed(t) ==
  /\ pc[t] = "s_create_del"
  /\ \E ok \in DeleteOutcomes : Delete(ok)
  /\ Goto(t, "fs_status")
  /\ SetLoc(t, "code", exitCodeFailedCgroup)
  /\ UNCHANGED <<status, exitCode, stopped, waitOnce, doneCh, cgManager,
                 stdoutFile, stderrFile, process, ret>>
  /\ UNCHANGED <<regVars, fnVars>>

\* prepareJobFilesystem, lines 301-309: MkdirAll and the open of stdout.log
PrepareStdout(t) ==
  /\ pc[t] = "s_open_out"
  /\ \E ok \in BOOLEAN :
       IF ok
         THEN /\ stdoutFile' = "open"
              /\ Goto(t, "s_open_err")
              /\ SetLoc(t, "out", TRUE)
         ELSE /\ UNCHANGED stdoutFile
              /\ Goto(t, "fs_status")
              /\ SetLoc(t, "code", exitCodeFailedToStart)
  /\ UNCHANGED <<status, exitCode, stopped, waitOnce, doneCh, cgManager, cgroup,
                 stderrFile, process, child, childHow, ret, cnt>>
  /\ UNCHANGED <<regVars, fnVars>>

\* prepareJobFilesystem, lines 311-321: the open of stderr.log
PrepareStderr(t) ==
  /\ pc[t] = "s_open_err"
  /\ \E ok \in BOOLEAN :
       IF ok
         THEN /\ stderrFile' = "open"
              /\ Goto(t, "s_spawn")
              /\ SetLoc(t, "err", TRUE)
         ELSE /\ UNCHANGED stderrFile
              /\ Goto(t, "fs_status")
              /\ SetLoc(t, "code", exitCodeFailedToStart)
  /\ UNCHANGED <<status, exitCode, stopped, waitOnce, doneCh, cgManager, cgroup,
                 stdoutFile, process, child, childHow, ret, cnt>>
  /\ UNCHANGED <<regVars, fnVars>>

\* line 181: j.cmd.Start(); with UseCgroupFD (line 168) the clone fails
\* when the cgroup directory is gone
StartSpawn(t) ==
  /\ pc[t] = "s_spawn"
  /\ \E ok \in (IF cgroup THEN BOOLEAN ELSE {FALSE}) :
       IF ok
         THEN /\ process' = TRUE
              /\ child' = "running"
              /\ Count("spawns")
              /\ Goto(t, "s_run")
              /\ SetLoc(t, "spawned", TRUE)
         ELSE /\ UNCHANGED <<process, child, cnt, loc>>
              /\ Goto(t, "s_spawn_del")
  /\ UNCHANGED <<status, exitCode, stopped, waitOnce, doneCh, cgManager, cgroup,
                 stdoutFile, stderrFile, childHow, ret>>
  /\ UNCHANGED <<regVars, fnVars>>

\* lines 182-185: Delete after a failed spawn, then failStart(-11)
StartSpawnFailed(t) ==
  /\ pc[t] = "s_spawn_del"
  /\ \E ok \in DeleteOutcomes : Delete(ok)
  /\ Goto(t, "fs_status")
  /\ SetLoc(t, "code", exitCodeFailedToStart)
  /\ UNCHANGED <<status, exitCode, stopped, waitOnce, doneCh, cgManager,
                 stdoutFile, stderrFile, process, ret>>
  /\ UNCHANGED <<regVars, fnVars>>

\* a Start for which a failed Started -> Running transition is fatal: it
\* returns an error without launching the waiter
StartRunningFatal(t) ==
  /\ pc[t] = "s_run"
  /\ \E ok \in BOOLEAN :
       /\ tryTransition(StatusStarted, StatusRunning, ok)
       /\ SetLoc(t, "casFail", ~ok)
       /\ IF ok THEN Goto(t, "s_go") /\ UNCHANGED ret ELSE Return(t, "err")
  /\ UNCHANGED <<exitCode, stopped, waitOnce, doneCh, cgManager, cgroup,
                 stdoutFile, stderrFile, process, child, childHow, cnt>>
  /\ UNCHANGED <<regVars, fnVars>>

\* line 213: the Started -> Running transition; its failure is only logged
StartRunning(t) ==
  /\ pc[t] = "s_run"
  /\ \E ok \in BOOLEAN :
       /\ tryTransition(StatusStarted, StatusRunning, ok)
       /\ SetLoc(t, "casFail", ~ok)
  /\ Goto(t, "s_go")
  /\ UNCHANGED <<exitCode, stopped, waitOnce, doneCh, cgManager, cgroup,
                 stdoutFile, stderrFile, process, child, childHow, ret, cnt>>
  /\ UNCHANGED <<regVars, fnVars>>

\* Start returning success without launching the waiter goroutine
StartForgetWaiter(t) ==
  /\ pc[t] = "s_go"
  /\ Return(t, "nil")
  /\ UNCHANGED <<jobVars, loc, cnt>>
  /\ UNCHANGED <<regVars, fnVars>>

\* lines 219-220: go j.waitForExit(); return nil
StartLaunchWaiter(t) ==
  /\ pc[t] = "s_go"
  /\ pc' = [pc EXCEPT ![t] = "ret", ![waitForExit] = "w_do"]
  /\ ret' = [ret EXCEPT ![t] = "nil"]
  /\ Count("waiters")
  /\ UNCHANGED <<jobVars, loc>>
  /\ UNCHANGED <<regVars, fnVars>>

\* ------------------------------------------------------- Job.failStart
\* line 275: j.setStatus(status)
FailStartStatus(t) ==
  /\ pc[t] = "fs_status"
  /\ setStatus(StatusFailed)
  /\ Goto(t, "fs_code")
  /\ UNCHANGED <<exitCode, stopped, waitOnce, doneCh, cgManager, cgroup,
                 stdoutFile, stderrFile, process, child, childHow, ret, loc, cnt>>
  /\ UNCHANGED <<regVars, fnVars>>

\* line 277: j.setExitCode(code)
FailStartExitCode(t) ==
  /\ pc[t] = "fs_code"
  /\ setExitCode(loc[t].code)
  /\ SetLoc(t, "code", 0)
  /\ Count("codes")
  /\ Goto(t, "fs_do")
  /\ UNCHANGED <<status, stopped, waitOnce, doneCh, cgManager, cgroup,
                 stdoutFile, stderrFile, process, child, childHow, ret>>
  /\ UNCHANGED <<regVars, fnVars>>

\* a failStart that returns its error without entering waitOnce
FailStartDoSkip(t) ==
  /\ pc[t] = "fs_do"
  /\ Return(t, "err")
  /\ UNCHANGED <<jobVars, loc, cnt>>
  /\ UNCHANGED <<regVars, fnVars>>

\* line 281: j.waitOnce.Do(func() {...}); line 297 when Do returns
FailStartDo(t) ==
  /\ pc[t] = "fs_do"
  /\ OnceDo(t, "td_out", AfterDo(t))
  /\ UNCHANGED <<status, exitCode, stopped, doneCh, cgManager, cgroup,
                 stdoutFile, stderrFile, process, child, childHow, loc>>
  /\ UNCHANGED <<regVars, fnVars>>

\* ---------------------------------------------------------- Job.doWait
\* line 385: if j.Status() != StatusRunning
DoWaitCheck(t) ==
  /\ pc[t] = "dw_check"
  /\ Goto(t, IF status # StatusRunning THEN "td_out" ELSE "dw_wait")
  /\ UNCHANGED <<jobVars, ret, loc, cnt>>
  /\ UNCHANGED <<regVars, fnVars>>

\* outcome of cmd.Wait for a child that ended the way how says: exit status
\* 0, exit status 1, death by a signal; "unknown" is an error that carries
\* no process state
WaitOutcomes(how) ==
  IF how = "signal" THEN {"signal", "unknown"} ELSE {"exit0", "exit1", "unknown"}

\* an exit code that does not tell death by a signal from an exit status
getExitCodeFromErrorNoSignal(w) ==
  IF w = "exit0" THEN 0
  ELSE IF w = "unknown" THEN exitCodeUnknown
  ELSE 1

\* getExitCodeFromError and lines 403-413: the exit code for a wait outcome
getExitCodeFromError(w) ==
  IF w = "exit0" THEN 0
  ELSE IF w = "exit1" THEN 1
  ELSE IF w = "signal" THEN exitCodeKilledBySignal
  ELSE exitCodeUnknown

\* a doWait that goes from cmd.Wait to the flag, writing no exit code
DoWaitReapSkipCode(t) ==
  /\ pc[t] = "dw_wait"
  /\ child = "zombie"
  /\ child' = "reaped"
  /\ Goto(t, "dw_flag")
  /\ UNCHANGED <<status, exitCode, stopped, waitOnce, doneCh, cgManager, cgroup,
                 stdoutFile, stderrFile, process, childHow, ret, loc, cnt>>
  /\ UNCHANGED <<regVars, fnVars>>

\* line 400: waitErr := j.cmd.Wait() blocks until the child has ended
DoWaitReap(t) ==
  /\ pc[t] = "dw_wait"
  /\ child = "zombie"
  /\ child' = "reaped"
  /\ \E w \in WaitOutcomes(childHow) : SetLoc(t, "wres", w)
  /\ Goto(t, "dw_code")
  /\ UNCHANGED <<status, exitCode, stopped, waitOnce, doneCh, cgManager, cgroup,
                 stdoutFile, stderrFile, process, childHow, ret, cnt>>
  /\ UNCHANGED <<regVars, fnVars>>

\* lines 403-413: j.setExitCode(...)
DoWaitExitCode(t) ==
  /\ pc[t] = "dw_code"
  /\ setExitCode(getExitCodeFromError(loc[t].wres))
  /\ SetLoc(t, "wres", "none")
  /\ Count("codes")
  /\ Goto(t, "dw_flag")
  /\ UNCHANGED <<status, stopped, waitOnce, doneCh, cgManager, cgroup,
                 stdoutFile, stderrFile, process, child, childHow, ret>>
  /\ UNCHANGED <<regVars, fnVars>>

\* line 415: j.stopped.Load()
DoWaitLoadStopped(t) ==
  /\ pc[t] = "dw_flag"
  /\ SetLoc(t, "flag", stopped)
  /\ Goto(t, "dw_read")
  /\ UNCHANGED <<jobVars, ret, cnt>>
  /\ UNCHANGED <<regVars, fnVars>>

\* a reconciliation that does not look at the flag
ReconcileIgnoreFlag(flag, st) ==
  IF st # StatusFailed THEN StatusExited ELSE st

\* the status the waiter decides to store, given the flag and the status
\* it read (lines 415-425); the status itself when it stores nothing
Reconcile(flag, st) ==
  IF flag THEN StatusStopped
  ELSE IF st # StatusFailed THEN StatusExited ELSE st

\* lines 416 and 422: the read of the status that decides the store
DoWaitReadStatus(t) ==
  /\ pc[t] = "dw_read"
  /\ loc' = [loc EXCEPT ![t].to = Reconcile(loc[t].flag, status),
                        ![t].flag = FALSE]
  /\ Goto(t, IF Reconcile(loc[t].flag, status) # status THEN "dw_write" ELSE "td_out")
  /\ UNCHANGED <<jobVars, ret, cnt>>
  /\ UNCHANGED <<regVars, fnVars>>

\* lines 418 and 423: j.setStatus(StatusStopped) or j.setStatus(StatusExited)
DoWaitWriteStatus(t) ==
  /\ pc[t] = "dw_write"
  /\ setStatus(loc[t].to)
  /\ SetLoc(t, "to", 0)
  /\ Goto(t, "td_out")
  /\ UNCHANGED <<exitCode, stopped, waitOnce, doneCh, cgManager, cgroup,
                 stdoutFile, stderrFile, process, child, childHow, ret, cnt>>
  /\ UNCHANGED <<regVars, fnVars>>

\* ------------------------------------ teardown common to both bodies
\* closeLogFiles, lines 364-369: Close of stdoutFile when it is not nil
CloseStdout(t) ==
  /\ pc[t] = "td_out"
  /\ IF stdoutFile # "nil"
       THEN stdoutFile' = "closed" /\ Count("outClose")
       ELSE UNCHANGED <<stdoutFile, cnt>>
  /\ Goto(t, "td_err")
  /\ UNCHANGED <<status, exitCode, stopped, waitOnce, doneCh, cgManager, cgroup,
                 stderrFile, process, child, childHow, ret, loc>>
  /\ UNCHANGED <<regVars, fnVars>>

\* a teardown that goes from the sinks to close(doneCh), leaving the cgroup
CloseStderrSkipDelete(t) ==
  /\ pc[t] = "td_err"
  /\ IF stderrFile # "nil"
       THEN stderrFile' = "closed" /\ Count("errClose")
       ELSE UNCHANGED <<stderrFile, cnt>>
  /\ Goto(t, "td_close")
  /\ UNCHANGED <<status, exitCode, stopped, waitOnce, doneCh, cgManager, cgroup,
                 stdoutFile, process, child, childHow, ret, loc>>
  /\ UNCHANGED <<regVars, fnVars>>

\* closeLogFiles, lines 371-376: Close of stderrFile when it is not nil
CloseStderr(t) ==
  /\ pc[t] = "td_err"
  /\ IF stderrFile # "nil"
       THEN stderrFile' = "closed" /\ Count("errClose")
       ELSE UNCHANGED <<stderrFile, cnt>>
  /\ Goto(t, "td_del")
  /\ UNCHANGED <<status, exitCode, stopped, waitOnce, doneCh, cgManager, cgroup,
                 stdoutFile, process, child, childHow, ret, loc>>
  /\ UNCHANGED <<regVars, fnVars>>

\* lines 290-294, 392-396, 435-439: Delete when cgManager is not nil
TeardownDelete(t) ==
  /\ pc[t] = "td_del"
  /\ IF cgManager
       THEN \E ok \in DeleteOutcomes : Delete(ok)
       ELSE UNCHANGED <<cgroup, child, childHow, cnt>>
  /\ Goto(t, "td_close")
  /\ UNCHANGED <<status, exitCode, stopped, waitOnce, doneCh, cgManager,
                 stdoutFile, stderrFile, process, ret, loc>>
  /\ UNCHANGED <<regVars, fnVars>>

\* lines 282 and 382: defer close(j.doneCh)
CloseDone(t) ==
  /\ pc[t] = "td_close"
  /\ doneCh' = "closed"
  /\ Count("closes")
  /\ Goto(t, "td_rel")
  /\ UNCHANGED <<status, exitCode, stopped, waitOnce, cgManager, cgroup,
                 stdoutFile, stderrFile, process, child, childHow, ret, loc>>
  /\ UNCHANGED <<regVars, fnVars>>

\* a latch that is never marked done: the callers that wait for f to return
\* wait for ever
OnceReleaseKeepBusy(t) ==
  /\ pc[t] = "td_rel"
  /\ AfterDo(t)
  /\ UNCHANGED <<jobVars, loc, cnt>>
  /\ UNCHANGED <<regVars, fnVars>>

\* f has returned: sync.Once marks itself done and Do returns
OnceRelease(t) ==
  /\ pc[t] = "td_rel"
  /\ waitOnce' = "done"
  /\ AfterDo(t)
  /\ UNCHANGED <<status, exitCode, stopped, doneCh, cgManager, cgroup,
                 stdoutFile, stderrFile, process, child, childHow, loc, cnt>>
  /\ UNCHANGED <<regVars, fnVars>>

\* ----------------------------------------------------------- Job.Stop
\* the flag stored without the compare: every Stop call goes on to kill
StopFlagStore(t) ==
  /\ pc[t] = "p_flag"
  /\ InOrder(t, "p_flag")
  /\ stopped' = TRUE
  /\ Goto(t, "p_kill")
  /\ loc' = [loc EXCEPT ![t].won = TRUE,
                        ![t].onRunning = (status = StatusRunning),
                        ![t].onTerminal = (status >= StatusExited)]
  /\ UNCHANGED <<status, exitCode, waitOnce, doneCh, cgManager, cgroup,
                 stdoutFile, stderrFile, process, child, childHow, ret, cnt>>
  /\ UNCHANGED <<regVars, fnVars>>

\* line 228: j.stopped.CompareAndSwap(false, true)
StopFlag(t) ==
  /\ pc[t] = "p_flag"
  /\ InOrder(t, "p_flag")
  /\ IF stopped
       THEN Return(t, "nil") /\ UNCHANGED <<stopped, loc>>
       ELSE /\ stopped' = TRUE
            /\ Goto(t, "p_kill")
            /\ loc' = [loc EXCEPT ![t].won = TRUE,
                                  ![t].onRunning = (status = StatusRunning),
                                  ![t].onTerminal = (status >= StatusExited)]
            /\ UNCHANGED ret
  /\ UNCHANGED <<status, exitCode, waitOnce, doneCh, cgManager, cgroup,
                 stdoutFile, stderrFile, process, child, childHow, cnt>>
  /\ UNCHANGED <<regVars, fnVars>>

\* lines 235-248: SIGKILL to the process group, or to the process; the
\* kill fails once the child has been reaped
StopKill(t) ==
  /\ pc[t] = "p_kill"
  /\ IF process
       THEN /\ Count("kills")
            /\ child' = IF child = "running" THEN "zombie" ELSE child
            /\ childHow' = IF child = "running" THEN "signal" ELSE childHow
            /\ loc' = [loc EXCEPT ![t].errs = (child = "reaped"),
                                  ![t].kerr = (child = "reaped"),
                                  ![t].hit = (child = "running")]
       ELSE UNCHANGED <<cnt, child, childHow, loc>>
  /\ Goto(t, "p_del")
  /\ UNCHANGED <<status, exitCode, stopped, waitOnce, doneCh, cgManager, cgroup,
                 stdoutFile, stderrFile, process, ret>>
  /\ UNCHANGED <<regVars, fnVars>>

\* lines 251-258: Delete when cgManager is not nil
StopDelete(t) ==
  /\ pc[t] = "p_del"
  /\ IF cgManager
       THEN \E ok \in DeleteOutcomes :
              /\ Delete(ok)
              /\ SetLoc(t, "errs", loc[t].errs \/ ~ok)
       ELSE UNCHANGED <<cgroup, child, childHow, cnt, loc>>
  /\ Goto(t, "p_status")
  /\ UNCHANGED <<status, exitCode, stopped, waitOnce, doneCh, cgManager,
                 stdoutFile, stderrFile, process, ret>>
  /\ UNCHANGED <<regVars, fnVars>>

\* a Stop that leaves the status as it is
StopStatusSkip(t) ==
  /\ pc[t] = "p_status"
  /\ Goto(t, "p_do")
  /\ UNCHANGED <<jobVars, ret, loc, cnt>>
  /\ UNCHANGED <<regVars, fnVars>>

\* line 260: j.setStatus(StatusStopped)
StopStatus(t) ==
  /\ pc[t] = "p_status"
  /\ setStatus(StatusStopped)
  /\ Goto(t, "p_do")
  /\ UNCHANGED <<exitCode, stopped, waitOnce, doneCh, cgManager, cgroup,
                 stdoutFile, stderrFile, process, child, childHow, ret, loc, cnt>>
  /\ UNCHANGED <<regVars, fnVars>>

\* Stop calling j.doWait() itself instead of going through the latch
StopDoDirect(t) ==
  /\ pc[t] = "p_do"
  /\ Goto(t, "dw_check")
  /\ Count("bodies")
  /\ UNCHANGED <<jobVars, ret, loc>>
  /\ UNCHANGED <<regVars, fnVars>>

\* line 262: j.waitOnce.Do(j.doWait); lines 264-268 when Do returns
StopDo(t) ==
  /\ pc[t] = "p_do"
  /\ OnceDo(t, "dw_check", AfterDo(t))
  /\ UNCHANGED <<status, exitCode, stopped, doneCh, cgManager, cgroup,
                 stdoutFile, stderrFile, process, child, childHow, loc>>
  /\ UNCHANGED <<regVars, fnVars>>

\* ---------------------------------------------------- Job.waitForExit
\* line 443: j.waitOnce.Do(j.doWait) in the goroutine Start launched
WaiterDo ==
  /\ pc[waitForExit] = "w_do"
  /\ OnceDo(waitForExit, "dw_check", AfterDo(waitForExit))
  /\ UNCHANGED <<status, exitCode, stopped, doneCh, cgManager, cgroup,
                 stdoutFile, stderrFile, process, child, childHow, loc>>
  /\ UNCHANGED <<regVars, fnVars>>

\* ----------------------------------------------------------- Job.Wait
\* a Wait that returns without receiving from doneCh
WaitNoBlock(t) ==
  /\ pc[t] = "wait"
  /\ InOrder(t, "wait")
  /\ Return(t, "nil")
  /\ UNCHANGED <<jobVars, loc, cnt>>
  /\ UNCHANGED <<regVars, fnVars>>

\* line 224: <-j.doneCh
Wait(t) ==
  /\ pc[t] = "wait"
  /\ InOrder(t, "wait")
  /\ doneCh = "closed"
  /\ Return(t, "nil")
  /\ UNCHANGED <<jobVars, loc, cnt>>
  /\ UNCHANGED <<regVars, fnVars>>

\* ------------------------------------------------------ the child
\* the spawned command ends on its own: by exiting, or killed by a signal
ChildExit ==
  /\ child = "running"
  /\ child' = "zombie"
  /\ \E how \in {"exit", "signal"} : childHow' = how
  /\ UNCHANGED <<status, exitCode, stopped, waitOnce, doneCh, cgManager, cgroup,
                 stdoutFile, stderrFile, process, pc, ret, loc, cnt>>
  /\ UNCHANGED <<regVars, fnVars>>

\* ------------------------------------------------------ specification
StartStep(t) ==
  \/ StartGuard(t) \/ StartNewCgroupManager(t) \/ StartCreate(t)
  \/ StartCreateFailed(t) \/ PrepareStdout(t) \/ PrepareStderr(t)
  \/ StartSpawn(t) \/ StartSpawnFailed(t) \/ StartRunning(t)
  \/ StartLaunchWaiter(t)
  \/ FailStartStatus(t) \/ FailStartExitCode(t) \/ FailStartDo(t)

DoWaitStep(t) ==
  \/ DoWaitCheck(t) \/ DoWaitReap(t) \/ DoWaitExitCode(t)
  \/ DoWaitLoadStopped(t) \/ DoWaitReadStatus(t) \/ DoWaitWriteStatus(t)

TeardownStep(t) ==
  \/ CloseStdout(t) \/ CloseStderr(t) \/ TeardownDelete(t)
  \/ CloseDone(t) \/ OnceRelease(t)

StopStep(t) ==
  \/ StopFlag(t) \/ StopKill(t) \/ StopDelete(t) \/ StopStatus(t) \/ StopDo(t)

Next ==
  \/ \E t \in StartCalls : StartStep(t)
  \/ \E t \in StopCalls : StopStep(t)
  \/ \E t \in StopCalls \cup {waitForExit} : DoWaitStep(t)
  \/ \E t \in Tasks : TeardownStep(t)
  \/ WaiterDo
  \/ \E t \in WaitCalls : Wait(t)
  \/ ChildExit

Spec == Init /\ [][Next]_vars

\* Scheduling: a call is made or not as its caller pleases, but a task that
\* is inside Start, Stop, Wait or waitForExit keeps running (goroutines are
\* scheduled fairly), and the child does end.  No task loops, so weak
\* fairness of the union of their steps lets every one of them finish.
Progress ==
  \/ \E t \in StartCalls : pc[t] # "s_guard" /\ StartStep(t)
  \/ \E t \in StopCalls : pc[t] # "p_flag" /\ StopStep(t)
  \/ \E t \in StopCalls \cup {waitForExit} : DoWaitStep(t)
  \/ \E t \in Tasks : TeardownStep(t)
  \/ WaiterDo
  \/ \E t \in WaitCalls : Wait(t)
  \/ ChildExit

Fairness == WF_vars(Progress)

FairSpec == Spec /\ Fairness

\* ------------------------------------------------------------- registry
jobSide == <<jobVars, pc, ret, loc, cnt>>

MGoto(t, l) == mpc' = [mpc EXCEPT ![t] = l]
MReturn(t, code) ==
  mpc' = [mpc EXCEPT ![t] = "ret"] /\ mret' = [mret EXCEPT ![t] = code]

\* requests of one kind are numbered in the order in which they are made
MInOrder(t) ==
  \A u \in Requests : (u[1] = t[1] /\ u[2] < t[2]) => mpc[u] # "call"

\* line 38: uuid.New().String(), a fresh identifier for every call
uuid(t) == t[2]

\* a NewJob that checks the id only
NewJobNoCommandCheck(id, command) == id # EmptyId

\* lines 112-135: NewJob succeeds unless the id or the command is empty
NewJob(id, command) == id # EmptyId /\ command # ""

\* a StartJob that does not look at the executable
StartJobNoValidate(t) ==
  /\ mpc[t] = "call"
  /\ MInOrder(t)
  /\ \E exe \in Executables :
       /\ MGoto(t, "m_new")
       /\ mloc' = [mloc EXCEPT ![t].rpc = "StartJob", ![t].exe = exe]
  /\ UNCHANGED <<jobs, mu, mret, jobObjs, jobSide, fnVars>>

\* lines 33-36: req.GetExecutable() == "" is answered InvalidArgument
StartJobValidate(t) ==
  /\ mpc[t] = "call"
  /\ MInOrder(t)
  /\ \E exe \in Executables :
       /\ mloc' = [mloc EXCEPT ![t].rpc = "StartJob", ![t].exe = exe]
       /\ IF exe = ""
            THEN MReturn(t, "InvalidArgument")
            ELSE MGoto(t, "m_new") /\ UNCHANGED mret
  /\ UNCHANGED <<jobs, mu, jobObjs, jobSide, fnVars>>

\* lines 38-45: the identifier, then joblib.NewJob
StartJobNewJob(t) ==
  /\ mpc[t] = "m_new"
  /\ IF NewJob(uuid(t), mloc[t].exe)
       THEN /\ MGoto(t, "m_start")
            /\ mloc' = [mloc EXCEPT ![t].id = uuid(t)]
            /\ jobObjs' = [jobObjs EXCEPT ![uuid(t)].made = TRUE]
            /\ UNCHANGED mret
       ELSE /\ MReturn(t, "Internal")
            /\ UNCHANGED <<mloc, jobObjs>>
  /\ UNCHANGED <<jobs, mu, jobSide, fnVars>>

\* a StartJob that goes on whatever job.Start returned
StartJobStartUnchecked(t) ==
  /\ mpc[t] = "m_start"
  /\ \E ok \in BOOLEAN :
       /\ jobObjs' = [jobObjs EXCEPT ![mloc[t].id].started =
                                        IF ok THEN "nil" ELSE "err"]
       /\ mloc' = [mloc EXCEPT ![t].err = ~ok]
       /\ MGoto(t, "m_lock") /\ UNCHANGED mret
  /\ UNCHANGED <<jobs, mu, jobSide, fnVars>>

\* lines 47-49: job.Start(); its error is answered Internal
StartJobStart(t) ==
  /\ mpc[t] = "m_start"
  /\ \E ok \in BOOLEAN :
       /\ jobObjs' = [jobObjs EXCEPT ![mloc[t].id].started =
                                        IF ok THEN "nil" ELSE "err"]
       /\ mloc' = [mloc EXCEPT ![t].err = ~ok]
       /\ IF ok
            THEN MGoto(t, "m_lock") /\ UNCHANGED mret
            ELSE MReturn(t, "Internal")
  /\ UNCHANGED <<jobs, mu, jobSide, fnVars>>

\* a write lock that is granted while readers hold the lock
StartJobLockNoWait(t) ==
  /\ mpc[t] = "m_lock"
  /\ ~mu.w
  /\ mu' = [mu EXCEPT !.w = TRUE]
  /\ MGoto(t, "m_put")
  /\ UNCHANGED <<jobs, mloc, mret, jobObjs, jobSide, fnVars>>

\* line 51: m.mu.Lock()
StartJobLock(t) ==
  /\ mpc[t] = "m_lock"
  /\ ~mu.w /\ mu.r = 0
  /\ mu' = [mu EXCEPT !.w = TRUE]
  /\ MGoto(t, "m_put")
  /\ UNCHANGED <<jobs, mloc, mret, jobObjs, jobSide, fnVars>>

\* line 52: m.jobs[id] = job
StartJobInsert(t) ==
  /\ mpc[t] = "m_put"
  /\ jobs' = [jobs EXCEPT ![mloc[t].id] = mloc[t].id]
  /\ MGoto(t, "m_unlock")
  /\ UNCHANGED <<mu, mloc, mret, jobObjs, jobSide, fnVars>>

\* lines 53-61: m.mu.Unlock(), and the response carries the identifier
StartJobUnlock(t) ==
  /\ mpc[t] = "m_unlock"
  /\ mu' = [mu EXCEPT !.w = FALSE]
  /\ MReturn(t, "OK")
  /\ UNCHANGED <<jobs, mloc, jobObjs, jobSide, fnVars>>

\* lines 65, 84 and 100-102: StopJob or GetStatus is called with some
\* identifier; getJob answers nil for the empty one without locking
GetJobCheck(t) ==
  /\ mpc[t] = "call"
  /\ MInOrder(t)
  /\ \E rpc \in {"StopJob", "GetStatus"}, id \in RequestIds :
       /\ mloc' = [mloc EXCEPT ![t].rpc = rpc, ![t].id = id]
       /\ MGoto(t, IF id = EmptyId THEN "g_done" ELSE "g_rlock")
  /\ UNCHANGED <<jobs, mu, mret, jobObjs, jobSide, fnVars>>

\* line 103: m.mu.RLock()
GetJobRLock(t) ==
  /\ mpc[t] = "g_rlock"
  /\ ~mu.w
  /\ mu' = [mu EXCEPT !.r = @ + 1]
  /\ MGoto(t, "g_read")
  /\ UNCHANGED <<jobs, mloc, mret, jobObjs, jobSide, fnVars>>

\* line 105: m.jobs[id], nil when the identifier is not mapped
GetJobRead(t) ==
  /\ mpc[t] = "g_read"
  /\ mloc' = [mloc EXCEPT ![t].job = jobs[mloc[t].id]]
  /\ MGoto(t, "g_runlock")
  /\ UNCHANGED <<jobs, mu, mret, jobObjs, jobSide, fnVars>>

\* line 104: the deferred m.mu.RUnlock()
GetJobRUnlock(t) ==
  /\ mpc[t] = "g_runlock"
  /\ mu' = [mu EXCEPT !.r = @ - 1]
  /\ MGoto(t, "g_done")
  /\ UNCHANGED <<jobs, mloc, mret, jobObjs, jobSide, fnVars>>

\* lines 66-68: StopJob answers NotFound for a nil Job
StopJobCheck(t) ==
  /\ mpc[t] = "g_done"
  /\ mloc[t].rpc = "StopJob"
  /\ IF mloc[t].job = NilJob
       THEN MReturn(t, "NotFound")
       ELSE MGoto(t, "m_stop") /\ UNCHANGED mret
  /\ UNCHANGED <<jobs, mu, mloc, jobObjs, jobSide, fnVars>>

\* a StopJob that takes the stopped Job out of the map
StopJobStopEvict(t) ==
  /\ mpc[t] = "m_stop"
  /\ \E ok \in BOOLEAN :
       /\ jobObjs' = [jobObjs EXCEPT ![mloc[t].job].stops = @ + 1]
       /\ mloc' = [mloc EXCEPT ![t].err = ~ok]
       /\ MReturn(t, IF ok THEN "OK" ELSE "Internal")
  /\ jobs' = [jobs EXCEPT ![mloc[t].job] = NilJob]
  /\ UNCHANGED <<mu, jobSide, fnVars>>

\* a StopJob that answers OK whatever job.Stop returned
StopJobStopSwallow(t) ==
  /\ mpc[t] = "m_stop"
  /\ \E ok \in BOOLEAN :
       /\ jobObjs' = [jobObjs EXCEPT ![mloc[t].job].stops = @ + 1]
       /\ mloc' = [mloc EXCEPT ![t].err = ~ok]
       /\ MReturn(t, "OK")
  /\ UNCHANGED <<jobs, mu, jobSide, fnVars>>

\* lines 70-80: job.Stop(); its error is answered Internal
StopJobStop(t) ==
  /\ mpc[t] = "m_stop"
  /\ \E ok \in BOOLEAN :
       /\ jobObjs' = [jobObjs EXCEPT ![mloc[t].job].stops = @ + 1]
       /\ mloc' = [mloc EXCEPT ![t].err = ~ok]
       /\ MReturn(t, IF ok THEN "OK" ELSE "Internal")
  /\ UNCHANGED <<jobs, mu, jobSide, fnVars>>

\* lines 85-96: GetStatus answers NotFound for a nil Job
GetStatusReply(t) ==
  /\ mpc[t] = "g_done"
  /\ mloc[t].rpc = "GetStatus"
  /\ MReturn(t, IF mloc[t].job = NilJob THEN "NotFound" ELSE "OK")
  /\ UNCHANGED <<jobs, mu, mloc, jobObjs, jobSide, fnVars>>

\* line 135: DebugDump is called
DebugDumpCall(t) ==
  /\ mpc[t] = "call"
  /\ MInOrder(t)
  /\ mloc' = [mloc EXCEPT ![t].rpc = "DebugDump"]
  /\ MGoto(t, "d_rlock")
  /\ UNCHANGED <<jobs, mu, mret, jobObjs, jobSide, fnVars>>

\* line 136: m.mu.RLock()
DebugDumpRLock(t) ==
  /\ mpc[t] = "d_rlock"
  /\ ~mu.w
  /\ mu' = [mu EXCEPT !.r = @ + 1]
  /\ MGoto(t, "d_read")
  /\ UNCHANGED <<jobs, mloc, mret, jobObjs, jobSide, fnVars>>

\* line 138: len(m.jobs), the number of identifiers that are mapped
DebugDumpRead(t) ==
  /\ mpc[t] = "d_read"
  /\ mloc' = [mloc EXCEPT ![t].n = Cardinality({i \in Ids : jobs[i] # NilJob})]
  /\ MGoto(t, "d_runlock")
  /\ UNCHANGED <<jobs, mu, mret, jobObjs, jobSide, fnVars>>

\* line 137: the deferred m.mu.RUnlock(); the string is returned
DebugDumpRUnlock(t) ==
  /\ mpc[t] = "d_runlock"
  /\ mu' = [mu EXCEPT !.r = @ - 1]
  /\ MReturn(t, "OK")
  /\ UNCHANGED <<jobs, mloc, jobObjs, jobSide, fnVars>>

StartJobStep(t) ==
  \/ StartJobValidate(t) \/ StartJobNewJob(t) \/ StartJobStart(t)
  \/ StartJobLock(t) \/ StartJobInsert(t) \/ StartJobUnlock(t)

LookupStep(t) ==
  \/ GetJobCheck(t) \/ GetJobRLock(t) \/ GetJobRead(t) \/ GetJobRUnlock(t)
  \/ StopJobCheck(t) \/ StopJobStop(t) \/ GetStatusReply(t)
  \/ DebugDumpCall(t) \/ DebugDumpRLock(t) \/ DebugDumpRead(t)
  \/ DebugDumpRUnlock(t)

RegNext ==
  \/ \E t \in StartJobCalls : StartJobStep(t)
  \/ \E t \in LookupCalls : LookupStep(t)

RegSpec == Init /\ [][RegNext]_vars

\* ------------------------------------------------------------ functions
FnInit ==
  /\ InitState
  /\ fcall \in FnInputs
  /\ fout = <<>>

\* a mapping whose default is FAILED
mapStatusDefaultFailed(s) ==
  IF s = StatusRunning THEN "RUNNING"
  ELSE IF s = StatusExited THEN "EXITED"
  ELSE IF s = StatusStopped THEN "STOPPED"
  ELSE "FAILED"

\* manager.go lines 119-133: the switch of mapStatus
mapStatus(s) ==
  IF s = StatusRunning THEN "RUNNING"
  ELSE IF s = StatusExited THEN "EXITED"
  ELSE IF s = StatusStopped THEN "STOPPED"
  ELSE IF s = StatusFailed THEN "FAILED"
  ELSE "UNSPECIFIED"

\* manager.go lines 108-117: nil for a nil request, and nil for every other
\* request as well (l says whether the request is there)
translateLimits(l, cpu, mem) == <<>>

ApplyMapStatus ==
  /\ fcall.fn = "mapStatus" /\ fout = <<>>
  /\ fout' = <<mapStatus(fcall.s)>>
  /\ UNCHANGED <<fcall, regVars, jobSide>>

ApplyTranslateLimits ==
  /\ fcall.fn = "translateLimits" /\ fout = <<>>
  /\ fout' = <<translateLimits(fcall.l, fcall.cpu, fcall.mem)>>
  /\ UNCHANGED <<fcall, regVars, jobSide>>

\* lines 112-135: NewJob returns (nil, error) or (job, nil), touching nothing
ApplyNewJob ==
  /\ fcall.fn = "NewJob" /\ fout = <<>>
  /\ fout' = <<IF NewJob(fcall.id, fcall.exe) THEN "job" ELSE "error">>
  /\ UNCHANGED <<fcall, regVars, jobSide>>

FnNext == ApplyMapStatus \/ ApplyTranslateLimits \/ ApplyNewJob

FnSpec == FnInit /\ [][FnNext]_vars

\* ------------------------------------------- a Job behind the registry
\* The registry and one of its Jobs together: the Job that the first
\* StartJob call makes is the Job of the variables status .. childHow, its
\* Start is run by that call, its Stop by the StopJob calls that found it,
\* and StopJob and GetStatus read its status and its exit code.  The Jobs of
\* a registry share nothing but the map, so one Job stands for each of them.
TheStartJob == <<"StartJob", 1>>
TheStart == <<"start", 1>>
TheObserver == <<"wait", 1>>

\* line 47: job.Start() runs inside the StartJob call
JobStart ==
  /\ mpc[TheStartJob] = "m_start"
  /\ StartStep(TheStart)

\* a StartJob that goes on to the insert whatever job.Start returned
StartJobStartReturnUnchecked(t) ==
  /\ mpc[t] = "m_start"
  /\ pc[TheStart] = "ret"
  /\ jobObjs' = [jobObjs EXCEPT ![mloc[t].id].started =
                                   IF ret[TheStart] = "nil" THEN "nil" ELSE "err"]
  /\ mloc' = [mloc EXCEPT ![t].err = (ret[TheStart] # "nil")]
  /\ MGoto(t, "m_lock") /\ UNCHANGED mret
  /\ UNCHANGED <<jobs, mu, jobSide, fnVars>>

\* lines 47-49: job.Start() has returned; its error is answered Internal
StartJobStartReturn(t) ==
  /\ mpc[t] = "m_start"
  /\ pc[TheStart] = "ret"
  /\ jobObjs' = [jobObjs EXCEPT ![mloc[t].id].started =
                                   IF ret[TheStart] = "nil" THEN "nil" ELSE "err"]
  /\ mloc' = [mloc EXCEPT ![t].err = (ret[TheStart] # "nil")]
  /\ IF ret[TheStart] = "nil"
       THEN MGoto(t, "m_lock") /\ UNCHANGED mret
       ELSE MReturn(t, "Internal")
  /\ UNCHANGED <<jobs, mu, jobSide, fnVars>>

\* lines 56-59: the goroutine that receives from job.Done()
Observer ==
  /\ mret[TheStartJob] = "OK"
  /\ Wait(TheObserver)

\* the StopJob calls that have called job.Stop(), the Stop calls begun
StopsAsked ==
  Cardinality({r \in LookupCalls :
                 /\ mloc[r].rpc = "StopJob" /\ mloc[r].job # NilJob
                 /\ mpc[r] \in {"m_stop", "r_status", "r_code", "ret"}})
StopsBegun == Cardinality({p \in StopCalls : pc[p] # "p_flag"})

\* line 70: job.Stop() runs inside a StopJob call that found the Job
JobStop(p) ==
  /\ pc[p] = "p_flag" => StopsBegun < StopsAsked
  /\ StopStep(p)

\* lines 70-72: job.Stop() has returned (the calls of Stop are told apart by
\* their results only: a StopJob call takes the result of any Stop call that
\* has returned to no other); its error is answered Internal
StopJobStopReturn(r) ==
  /\ mpc[r] = "m_stop"
  /\ \E p \in StopCalls :
       /\ pc[p] = "ret"
       /\ \A q \in LookupCalls : mloc[q].task # p[2]
       /\ jobObjs' = [jobObjs EXCEPT ![mloc[r].job].stops = @ + 1]
       /\ mloc' = [mloc EXCEPT ![r].err = (ret[p] = "err"), ![r].task = p[2]]
       /\ IF ret[p] = "err"
            THEN MReturn(r, "Internal")
            ELSE MGoto(r, "r_status") /\ UNCHANGED mret
  /\ UNCHANGED <<jobs, mu, jobSide, fnVars>>

\* lines 84-87: GetStatus answers NotFound for a nil Job
GetStatusCheck(r) ==
  /\ mpc[r] = "g_done"
  /\ mloc[r].rpc = "GetStatus"
  /\ IF mloc[r].job = NilJob
       THEN MReturn(r, "NotFound")
       ELSE MGoto(r, "r_status") /\ UNCHANGED mret
  /\ UNCHANGED <<jobs, mu, mloc, jobObjs, jobSide, fnVars>>

\* lines 77 and 93: Status: mapStatus(job.Status())
ReplyStatus(r) ==
  /\ mpc[r] = "r_status"
  /\ mloc' = [mloc EXCEPT ![r].st = mapStatus(status)]
  /\ MGoto(r, "r_code")
  /\ UNCHANGED <<jobs, mu, mret, jobObjs, jobSide, fnVars>>

\* lines 78 and 94: ExitCode: job.ExitCode(); the response is returned
ReplyExitCode(r) ==
  /\ mpc[r] = "r_code"
  /\ mloc' = [mloc EXCEPT ![r].ec = exitCode]
  /\ MReturn(r, "OK")
  /\ UNCHANGED <<jobs, mu, jobObjs, jobSide, fnVars>>

MgrStartJobStep(t) ==
  \/ StartJobValidate(t) \/ StartJobNewJob(t) \/ StartJobStartReturn(t)
  \/ StartJobLock(t) \/ StartJobInsert(t) \/ StartJobUnlock(t)

MgrLookupStep(r) ==
  \/ GetJobCheck(r) \/ GetJobRLock(r) \/ GetJobRead(r) \/ GetJobRUnlock(r)
  \/ StopJobCheck(r) \/ StopJobStopReturn(r) \/ GetStatusCheck(r)
  \/ ReplyStatus(r) \/ ReplyExitCode(r)

MgrNext ==
  \/ MgrStartJobStep(TheStartJob)
  \/ JobStart
  \/ \E r \in LookupCalls : MgrLookupStep(r)
  \/ \E p \in StopCalls : JobStop(p)
  \/ \E t \in StopCalls \cup {waitForExit} : DoWaitStep(t)
  \/ \E t \in Tasks : TeardownStep(t)
  \/ WaiterDo
  \/ Observer
  \/ ChildExit

MgrSpec == Init /\ [][MgrNext]_vars

\* ================================================================ claims
Terminal == {StatusExited, StatusStopped, StatusFailed}

\* the transitions of the state machine of the Job's status word
Transitions ==
  { <<StatusUnknown, StatusStarted>>, <<StatusStarted, StatusRunning>>,
    <<StatusRunning, StatusExited>>, <<StatusRunning, StatusStopped>>,
    <<StatusStarted, StatusFailed>>, <<StatusUnknown, StatusFailed>> }

StartSucceeded == \E s \in StartCalls : ret[s] = "nil"
StopsReturned == \A p \in StopCalls : pc[p] = "ret"
Quiescent == \A t \in StartCalls \cup StopCalls \cup {waitForExit} :
               pc[t] \in {"ret", "idle", "s_guard", "p_flag"}

\* C1: every change of the status word is one of the six transitions of the
\* state machine, in every interleaving of Start, Stop and the waiter.
C1_OnlyStateMachineTransitions ==
  [][status' # status => <<status, status'>> \in Transitions]_vars

\* C2: when a Stop call races the waiter that processes the natural exit of
\* a Job whose Start succeeded, the status is Stopped once Stop has returned
\* and doneCh is closed.
C2_StopRacingExitEndsStopped ==
  ( /\ StartSucceeded
    /\ stopped /\ StopsReturned
    /\ doneCh = "closed"
    /\ Quiescent )
  => status = StatusStopped

\* C3: doneCh is closed at most once, and only by the task that is running
\* the function it passed to waitOnce.Do (doWait or the failStart closure).
InLatch == {"dw_check", "dw_wait", "dw_code", "dw_flag", "dw_read", "dw_write",
            "td_out", "td_err", "td_del", "td_close", "td_rel"}
C3_DoneClosedOnceInsideLatch ==
  /\ cnt.closes <= 1
  /\ (doneCh = "closed") = (cnt.closes = 1)
  /\ doneCh = "closed" => waitOnce # "free"
  /\ \A t \in Tasks : pc[t] \in InLatch => waitOnce = "busy"
  /\ Cardinality({t \in Tasks : pc[t] \in InLatch}) <= 1

\* C3 witness: doneCh was closed once although the waiter and a Stop call
\* both went through waitOnce.Do.
C3_Witness ==
  /\ cnt.closes = 1
  /\ pc[waitForExit] = "ret"
  /\ \E p \in StopCalls : pc[p] = "ret" /\ loc[p].won

\* C4: at most one teardown body (doWait or the failStart closure) runs in
\* the life of a Job, so each sink's Close is attempted at most once.
C4_TeardownSingleShot ==
  /\ cnt.bodies <= 1
  /\ cnt.outClose <= 1
  /\ cnt.errClose <= 1

\* C4 witness: a Job with both sinks open was torn down while the waiter and
\* a Stop call both asked for the teardown; each sink was closed once.
C4_Witness ==
  /\ cnt.bodies = 1 /\ cnt.outClose = 1 /\ cnt.errClose = 1
  /\ waitOnce = "done"
  /\ pc[waitForExit] = "ret"
  /\ \E p \in StopCalls : pc[p] = "ret" /\ loc[p].onRunning

\* the Stop calls were issued on a running Job and have all returned
StopsOnRunningJobReturned ==
  /\ StopsReturned
  /\ \E p \in StopCalls : loc[p].onRunning

\* C5 as stated: N concurrent Stop calls on a running Job yield exactly one
\* kill, exactly one invocation of the cgroup Delete and exactly one close
\* of doneCh.
C5_OneKillOneDeleteOneSignal ==
  StopsOnRunningJobReturned =>
    cnt.kills = 1 /\ cnt.deletes = 1 /\ cnt.closes = 1

\* C5 amended: N concurrent Stop calls on a running Job yield exactly one
\* kill and exactly one close of doneCh, and Delete is invoked exactly twice:
\* once by the Stop call that set the flag and once by the teardown body.
C5_OneKillTwoDeletesOneSignal ==
  StopsOnRunningJobReturned =>
    cnt.kills = 1 /\ cnt.deletes = 2 /\ cnt.closes = 1

\* C5 witness: both Stop calls on a running Job have returned.
C5_Witness ==
  /\ StopsOnRunningJobReturned
  /\ cnt.kills = 1 /\ cnt.closes = 1

\* C6: when a Start call that passed the guard returns an error, the status
\* is Failed, the exit code is -11 or -12, doneCh is closed and a Delete has
\* been issued for the cgroup the call created.
C6_StartErrorLeavesFailedJob ==
  [][\A s \in StartCalls :
       (ret[s] = "none" /\ ret'[s] = "err") =>
         /\ status' = StatusFailed
         /\ exitCode' \in {exitCodeFailedToStart, exitCodeFailedCgroup}
         /\ doneCh' = "closed"
         /\ (loc'[s].cg => cnt'.undeleted = 0)]_vars

C8_StartedJobEventuallyDone ==
  /\ StartSucceeded ~> (doneCh = "closed" /\ status \in Terminal)
  /\ StartSucceeded ~> (\A w \in WaitCalls : ret[w] = "nil")

\* C8 witness: Start returned success, the child was waited on, doneCh is
\* closed and the Wait call has returned.
C8_Witness ==
  /\ StartSucceeded
  /\ child = "reaped"
  /\ doneCh = "closed" /\ status \in Terminal
  /\ \A w \in WaitCalls : ret[w] = "nil"

\* C9: whenever doneCh is closed the status is terminal and the exit code of
\* the Job that was torn down (a Job with a spawned child) has been written.
C9_DoneImpliesTerminalAndExitCode ==
  doneCh = "closed" =>
    /\ status \in Terminal
    /\ (cnt.spawns > 0 => cnt.codes > 0)

\* C10: whenever doneCh is closed neither sink is open.
C10_DoneImpliesSinksClosed ==
  doneCh = "closed" => stdoutFile # "open" /\ stderrFile # "open"

\* C11: whenever doneCh is closed, every Create performed for the Job has been
\* followed by a Delete, and no cgroup is created after doneCh was closed.
C11_DoneImpliesCgroupDeleted ==
  doneCh = "closed" => cnt.undeleted = 0

\* C12: a Stop call on a Job whose status is already terminal changes neither
\* the status, the exit code nor doneCh, issues no kill and no Delete, and
\* returns success.
C12_StopOnTerminalJobIsNoOp ==
  [][\A p \in StopCalls :
       (loc'[p].onTerminal /\ pc'[p] # pc[p]) =>
         /\ status' = status
         /\ exitCode' = exitCode
         /\ doneCh' = doneCh
         /\ cnt'.kills = cnt.kills
         /\ cnt'.deletes = cnt.deletes
         /\ ret'[p] \in {"none", "nil"}]_vars

\* C13: stopped_flag only changes from false to true, and a Stop call that
\* finds it set returns success having performed no kill, no Delete and no
\* write of the status.
C13_StopIdempotent ==
  [][/\ stopped => stopped'
     /\ \A p \in StopCalls :
          (stopped /\ pc[p] = "p_flag" /\ pc'[p] # pc[p]) =>
            /\ pc'[p] = "ret" /\ ret'[p] = "nil"
            /\ status' = status
            /\ cnt'.kills = cnt.kills
            /\ cnt'.deletes = cnt.deletes]_vars

\* C13 witness: a Stop call has returned success without having set the flag
\* while the call that set it is still at work.
C13_Witness ==
  /\ \E p \in StopCalls : pc[p] = "ret" /\ ~loc[p].won /\ ret[p] = "nil"
  /\ \E p \in StopCalls : loc[p].won /\ pc[p] = "p_kill"

\* C14 as stated: whenever any Stop call has returned, doneCh is closed.
C14_EveryStopReturnsAfterTeardown ==
  \A p \in StopCalls : pc[p] = "ret" => doneCh = "closed"

\* C14 amended: whenever the Stop call that set stopped_flag has returned,
\* doneCh is closed (a call that found the flag set returns at once).
C14_FlagSettingStopReturnsAfterTeardown ==
  \A p \in StopCalls : (pc[p] = "ret" /\ loc[p].won) => doneCh = "closed"

\* C14 witness: the Stop call that set the flag has returned, the teardown
\* having been run by the waiter.
C14_Witness ==
  /\ \E p \in StopCalls : pc[p] = "ret" /\ loc[p].won
  /\ pc[waitForExit] = "ret" /\ child = "reaped"

\* C15: a Stop call returns an error exactly when its kill failed; a failed
\* Delete alone leaves the result a success.
C15_StopErrorOnlyFromKill ==
  \A p \in StopCalls : pc[p] = "ret" => (ret[p] = "err") = loc[p].kerr

\* C16: when Stop has killed the running child of a Job whose Start
\* succeeded, the status is Stopped and the exit code is -13 once doneCh is
\* closed (unless cmd.Wait reported no process state).
C16_StopOfRunningChildGivesSignaled ==
  ( /\ StartSucceeded
    /\ \E p \in StopCalls : loc[p].hit /\ loc[p].onRunning
    /\ doneCh = "closed" /\ Quiescent )
  => /\ status = StatusStopped
     /\ \/ exitCode = exitCodeKilledBySignal
        \/ (cnt.codes > 0 /\ exitCode = exitCodeUnknown)

\* C17: no Wait call returns before doneCh is closed, and once doneCh is
\* closed every Wait call returns.
C17_WaitReturnsExactlyWhenDone ==
  /\ [](\A w \in WaitCalls : pc[w] = "ret" => doneCh = "closed")
  /\ (doneCh = "closed") ~> (\A w \in WaitCalls : ret[w] = "nil")

\* C17 witness: doneCh is closed and all Wait calls have returned.
C17_Witness ==
  /\ doneCh = "closed"
  /\ \A w \in WaitCalls : pc[w] = "ret" /\ ret[w] = "nil"
  /\ Cardinality(WaitCalls) >= 2

\* C18: an identifier is in the registry map only if its Job's Start
\* returned success, and a StartJob call that has returned answered OK exactly
\* when its Job is in the map; when Start failed the answer is Internal and
\* the Job is not in the map.
C18_InsertedIffStartSucceeded ==
  /\ \A i \in Ids :
       jobs[i] # NilJob => jobs[i] = i /\ jobObjs[i].started = "nil"
  /\ \A t \in StartJobCalls :
       mpc[t] = "ret" =>
         /\ (mret[t] = "OK") = (jobs[uuid(t)] # NilJob)
         /\ (mret[t] = "OK") = (jobObjs[uuid(t)].started = "nil")
         /\ jobObjs[uuid(t)].started = "err" => mret[t] = "Internal"

\* C18 witness: one StartJob call has returned OK with its Job in the map
\* and another has returned Internal after its Start failed.
C18_Witness ==
  \E t, u \in StartJobCalls :
    /\ mpc[t] = "ret" /\ mret[t] = "OK" /\ jobs[uuid(t)] = uuid(t)
    /\ mpc[u] = "ret" /\ mret[u] = "Internal"
    /\ jobObjs[uuid(u)].started = "err"

\* C19: a StartJob call with an empty executable returns InvalidArgument in
\* its first step, with no identifier and no Job made and the map unchanged,
\* and no Job is ever made for such a call.
C19_EmptyExecutableRejectedFirst ==
  /\ [][\A t \in StartJobCalls :
          (mpc[t] = "call" /\ mpc'[t] # "call" /\ mloc'[t].exe = "") =>
            /\ mpc'[t] = "ret" /\ mret'[t] = "InvalidArgument"
            /\ mloc'[t].id = EmptyId
            /\ jobs' = jobs /\ jobObjs' = jobObjs /\ mu' = mu]_vars
  /\ [](\A t \in StartJobCalls :
          mret[t] = "InvalidArgument" =>
            ~jobObjs[uuid(t)].made /\ jobs[uuid(t)] = NilJob)

\* C19 witness: a StartJob call has been answered InvalidArgument while the
\* Job of another call is in the map.
C19_Witness ==
  \E t, u \in StartJobCalls :
    /\ mret[t] = "InvalidArgument" /\ mloc[t].exe = ""
    /\ mret[u] = "OK" /\ jobs[uuid(u)] # NilJob

\* C20: a StopJob or GetStatus call returns NotFound exactly when its lookup
\* found no Job (always so for the empty identifier), and its steps then
\* change neither the map nor any Job; Stop is called only by a StopJob call
\* on the Job that the map holds for its identifier, and StopJob returns
\* Internal exactly when that Stop returned an error.
C20_NotFoundAndStopErrors ==
  /\ [](\A t \in LookupCalls :
          (mpc[t] = "ret" /\ mloc[t].rpc \in {"StopJob", "GetStatus"}) =>
            /\ (mret[t] = "NotFound") = (mloc[t].job = NilJob)
            /\ (mret[t] = "Internal") = mloc[t].err
            /\ mloc[t].id = EmptyId => mret[t] = "NotFound")
  /\ [][\A t \in LookupCalls :
          (mpc'[t] # mpc[t] /\ mloc'[t].job = NilJob) =>
            jobs' = jobs /\ jobObjs' = jobObjs]_vars
  /\ [][\A i \in Ids :
          jobObjs'[i].stops # jobObjs[i].stops =>
            \E t \in LookupCalls :
              /\ mpc[t] = "m_stop" /\ mloc[t].rpc = "StopJob"
              /\ mloc[t].job = i /\ jobs[mloc[t].id] = i]_vars

\* C20 witness: a StopJob for the identifier of a Job whose Start failed has
\* returned NotFound while another Job is in the map and was not stopped.
C20_Witness ==
  \E t \in LookupCalls, i, k \in Ids :
    /\ mpc[t] = "ret" /\ mret[t] = "NotFound" /\ mloc[t].rpc = "StopJob"
    /\ mloc[t].id = i /\ jobObjs[i].started = "err"
    /\ jobs[k] = k /\ jobObjs[k].stops = 0

\* C21: an identifier that is in the registry map stays mapped to the same
\* Job in every later state, a lookup that reads the map while the identifier
\* is mapped gets that Job, and a call that got a Job never returns NotFound,
\* also when Stop has been called on the Job.
C21_EntriesNeverEvicted ==
  /\ [][\A i \in Ids : jobs[i] # NilJob => jobs'[i] = jobs[i]]_vars
  /\ [][\A t \in LookupCalls :
          (mpc[t] = "g_read" /\ mpc'[t] # "g_read"
             /\ jobs[mloc[t].id] # NilJob)
          => mloc'[t].job = jobs[mloc[t].id]]_vars
  /\ [](\A t \in LookupCalls :
          (mpc[t] = "ret" /\ mloc[t].job # NilJob) => mret[t] # "NotFound")

\* C21 witness: a Job on which StopJob has called Stop is still in the map
\* after StopJob returned.
C21_Witness ==
  \E t \in LookupCalls, i \in Ids :
    /\ mpc[t] = "ret" /\ mloc[t].rpc = "StopJob" /\ mloc[t].job = i
    /\ jobObjs[i].stops > 0 /\ jobs[i] = i

\* C22: mapStatus sends Running, Exited, Stopped, Failed to RUNNING, EXITED,
\* STOPPED, FAILED and every other value to UNSPECIFIED, and it is one-to-one
\* on those four values.
C22_StatusMapping ==
  /\ (fcall.fn = "mapStatus" /\ fout # <<>>) =>
       /\ fcall.s = StatusRunning => fout[1] = "RUNNING"
       /\ fcall.s = StatusExited => fout[1] = "EXITED"
       /\ fcall.s = StatusStopped => fout[1] = "STOPPED"
       /\ fcall.s = StatusFailed => fout[1] = "FAILED"
       /\ fcall.s \notin {StatusRunning, StatusExited, StatusStopped,
                          StatusFailed} => fout[1] = "UNSPECIFIED"
  /\ \A a, b \in {StatusRunning, StatusExited, StatusStopped, StatusFailed} :
       mapStatus(a) = mapStatus(b) => a = b

\* C22 witness: mapStatus has returned UNSPECIFIED for a value that is not a
\* status of the Job.
C22_Witness ==
  /\ fcall.fn = "mapStatus" /\ fcall.s > StatusFailed
  /\ fout = <<"UNSPECIFIED">>

\* C23: NewJob with an empty id or an empty executable returns an error and
\* no Job, and nothing of a Job has been touched: no cgroup, no file, no
\* process, and no Start has taken a step.
C23_NewJobRejectsEmpty ==
  (fcall.fn = "NewJob" /\ fout # <<>>
     /\ (fcall.id = EmptyId \/ fcall.exe = "")) =>
    /\ fout[1] = "error"
    /\ ~cgManager /\ ~cgroup /\ ~process
    /\ stdoutFile = "nil" /\ stderrFile = "nil"
    /\ cnt = NoCounts
    /\ \A t \in StartCalls : pc[t] = "s_guard"

\* C23 witness: NewJob has returned an error for an empty executable and a
\* non-empty id.
C23_Witness ==
  /\ fcall.fn = "NewJob" /\ fcall.id # EmptyId /\ fcall.exe = ""
  /\ fout = <<"error">>

\* C24: translateLimits returns, for a request with recognized fields, the
\* list of their (key, value) pairs in the order cpu.max, memory.max, with
\* the values of the table (period 100000, n*100 for "<n>m", n*100000 for
\* "<n>", n*1048576 for "<n>M"); the list is empty only when no field is set.
C24_TranslatesRecognizedLimits ==
  (fcall.fn = "translateLimits" /\ fcall.l /\ fout # <<>>) =>
    fout[1] =
      (IF fcall.cpu = "max" THEN << <<"cpu.max", "max 100000">> >>
       ELSE IF fcall.cpu = "500m" THEN << <<"cpu.max", "50000 100000">> >>
       ELSE IF fcall.cpu = "2" THEN << <<"cpu.max", "200000 100000">> >>
       ELSE <<>>)
      \o
      (IF fcall.mem = "max" THEN << <<"memory.max", "max">> >>
       ELSE IF fcall.mem = "64M" THEN << <<"memory.max", "67108864">> >>
       ELSE <<>>)

\* C25: Create fails for a Job that holds a limit with an unsupported key
\* and leaves no cgroup directory, and the Start call then returns an error
\* with status Failed and exit code -12.
C25_UnsupportedKeyFailsStart ==
  [][\A s \in StartCalls :
       loc'[s].badKey =>
         /\ ~loc'[s].cg
         /\ pc[s] = "s_create" => (~cgroup' /\ pc'[s] = "s_create_del")
         /\ (ret[s] = "none" /\ ret'[s] # "none") =>
              /\ ret'[s] = "err"
              /\ status' = StatusFailed
              /\ exitCode' = exitCodeFailedCgroup]_vars

\* C26: when the Start call whose Create failed has returned and no Stop
\* call has begun, the result is an error, the status is Failed, the exit
\* code is -12, doneCh is closed, no sink was opened and no child spawned.
C26_CreateFailureLeavesFailedJob ==
  \A s \in StartCalls :
    (pc[s] = "ret" /\ ret[s] # "invalid" /\ ~loc[s].cg /\ ~stopped) =>
      /\ ret[s] = "err"
      /\ status = StatusFailed
      /\ exitCode = exitCodeFailedCgroup
      /\ doneCh = "closed"
      /\ stdoutFile = "nil" /\ stderrFile = "nil"
      /\ ~process /\ child = "none" /\ cnt.spawns = 0

\* C26 witness: the Start call whose Create failed has returned, no Stop call
\* has begun and a second Start call was turned away by the guard.
C26_Witness ==
  \E s, u \in StartCalls :
    /\ ret[s] = "err" /\ ~loc[s].cg /\ ~stopped /\ doneCh = "closed"
    /\ ret[u] = "invalid"

\* C27: when a Start call that created the cgroup has returned an error (the
\* filesystem preparation or the spawn failed) and no Stop call has begun,
\* the status is Failed, the exit code is -11, a Delete was issued after the
\* Create, every sink that was opened is closed, doneCh is closed and no
\* waiter goroutine was launched.
C27_LateStartFailureRollsBack ==
  \A s \in StartCalls :
    (ret[s] = "err" /\ loc[s].cg /\ ~stopped) =>
      /\ status = StatusFailed
      /\ exitCode = exitCodeFailedToStart
      /\ cnt.deletes >= 1 /\ cnt.undeleted = 0
      /\ stdoutFile = (IF loc[s].out THEN "closed" ELSE "nil")
      /\ stderrFile = (IF loc[s].err THEN "closed" ELSE "nil")
      /\ doneCh = "closed"
      /\ cnt.waiters = 0 /\ pc[waitForExit] = "idle"
      /\ cnt.spawns = 0

\* C27 witness: the spawn failed after both sinks were opened, the Start call
\* has returned and both sinks are closed.
C27_Witness ==
  \E s \in StartCalls :
    /\ ret[s] = "err" /\ loc[s].cg /\ loc[s].out /\ loc[s].err /\ ~stopped
    /\ stdoutFile = "closed" /\ stderrFile = "closed"

\* C28: doWait takes its path without cmd.Wait only when no child was
\* spawned, and whenever doneCh is closed for a Job whose child was spawned
\* the child has been reaped and its exit code written.
C28_NoWaitPathOnlyWithoutChild ==
  [][/\ \A t \in Tasks :
          (pc[t] = "dw_check" /\ pc'[t] = "td_out") => cnt.spawns = 0
     /\ (doneCh' = "closed" /\ cnt'.spawns > 0) =>
          (child' = "reaped" /\ cnt'.codes > 0)]_vars

C30_WaiterExitCode ==
  [][\A t \in Tasks :
       (pc[t] = "dw_code" /\ pc'[t] # "dw_code") =>
         /\ loc[t].wres = "signal" => exitCode' = exitCodeKilledBySignal
         /\ loc[t].wres = "unknown" => exitCode' = exitCodeUnknown
         /\ loc[t].wres = "exit0" => exitCode' = 0
         /\ loc[t].wres = "exit1" => exitCode' = 1
         /\ exitCode' \notin {exitCodeFailedToStart, exitCodeFailedCgroup}]_vars

\* C30 witness: the waiter has written -13 for a child that a signal killed.
C30_Witness ==
  /\ childHow = "signal" /\ child = "reaped"
  /\ exitCode = exitCodeKilledBySignal
  /\ cnt.codes = 1

\* the labels of the path of doWait that waits on the child, in program order
WaiterPath == <<"dw_wait", "dw_code", "dw_flag", "dw_read", "dw_write",
                "td_out", "td_err", "td_del", "td_close", "td_rel">>
Rank(l) == CHOOSE i \in DOMAIN WaiterPath : WaiterPath[i] = l
OnWaiterPath(t) ==
  \/ pc[t] \in {"dw_wait", "dw_code", "dw_flag", "dw_read", "dw_write"}
  \/ pc[t] \in {"td_out", "td_err", "td_del", "td_close"} /\ child = "reaped"

\* C31: the task that waits on the child in doWait reaps the child, then
\* writes the exit code, then reconciles the status, then closes the sinks,
\* then issues the cgroup Delete, then closes doneCh: each of its steps is
\* the next one of that order, and doneCh stays open until the last.
C31_WaiterTeardownOrder ==
  [][\A t \in Tasks :
       (OnWaiterPath(t) /\ pc'[t] # pc[t]) =>
         /\ pc'[t] \in {WaiterPath[i] : i \in DOMAIN WaiterPath}
         /\ \/ Rank(pc'[t]) = Rank(pc[t]) + 1
            \/ pc[t] = "dw_read" /\ pc'[t] = "td_out"
         /\ pc[t] # "td_close" => (doneCh = "open" /\ doneCh' = "open")
         /\ pc[t] = "dw_wait" => (child' = "reaped" /\ cnt.codes = 0)
         /\ pc[t] = "dw_code" => cnt'.codes = cnt.codes + 1
         /\ pc[t] = "td_out" => (cnt.codes = 1 /\ stdoutFile' = "closed")
         /\ pc[t] = "td_err" => stderrFile' = "closed"
         /\ pc[t] = "td_del" =>
              (stdoutFile = "closed" /\ stderrFile = "closed"
                 /\ cnt'.deletes = cnt.deletes + 1)
         /\ pc[t] = "td_close" => (doneCh = "open" /\ doneCh' = "closed")]_vars

\* C31 witness: the waiter goroutine went through the whole path and doneCh
\* is closed.
C31_Witness ==
  /\ pc[waitForExit] = "ret" /\ child = "reaped" /\ cnt.codes = 1
  /\ stdoutFile = "closed" /\ stderrFile = "closed"
  /\ doneCh = "closed" /\ ~stopped

\* C32: after a successful spawn Start goes on whatever the Started ->
\* Running transition gave: that step writes the status only when it finds
\* Started, the next step launches the waiter goroutine and returns success,
\* and the waiter is launched once.
C32_FailedRunningTransitionNotFatal ==
  /\ [][\A s \in StartCalls :
          /\ (pc[s] = "s_run" /\ pc'[s] # "s_run") =>
               /\ pc'[s] = "s_go" /\ ret'[s] = "none"
               /\ status # StatusStarted => status' = status
               /\ loc'[s].casFail = (status # StatusStarted)
          /\ (pc[s] = "s_go" /\ pc'[s] # "s_go") =>
               /\ ret'[s] = "nil"
               /\ cnt'.waiters = cnt.waiters + 1
               /\ pc[waitForExit] = "idle" /\ pc'[waitForExit] = "w_do"
               /\ status' = status]_vars
  /\ [](/\ cnt.waiters <= 1
        /\ \A s \in StartCalls :
             (loc[s].spawned /\ pc[s] = "ret") =>
               (ret[s] = "nil" /\ cnt.waiters = 1))

\* C32 witness: Start has returned success and launched the waiter although
\* its Started -> Running transition failed (Stop had stored Stopped).
C32_Witness ==
  \E s \in StartCalls :
    /\ loc[s].casFail /\ ret[s] = "nil" /\ cnt.waiters = 1
    /\ status = StatusStopped

\* the positions at which a request holds the read lock, the write lock
ReadLocked == {"g_read", "g_runlock", "d_read", "d_runlock"}
WriteLocked == {"m_put", "m_unlock"}

\* C33: the map is written only by a StartJob call that holds the write
\* lock and read only by calls that hold the read lock (getJob, DebugDump);
\* the write lock excludes every other holder, so no write of the map is
\* concurrent with another access; the locks are held by exactly the calls
\* between their lock and unlock, so none is held in Job.Start or Job.Stop.
C33_MapAccessUnderLock ==
  /\ [](/\ mu.r = Cardinality({t \in Requests : mpc[t] \in ReadLocked})
        /\ mu.w = (\E t \in Requests : mpc[t] \in WriteLocked)
        /\ Cardinality({t \in Requests : mpc[t] \in WriteLocked}) <= 1
        /\ ~(mu.w /\ mu.r > 0)
        /\ ( /\ \E t \in Requests : mpc[t] \in {"m_start", "m_stop"}
             /\ \A u \in Requests : mpc[u] \notin ReadLocked \cup WriteLocked )
           => (~mu.w /\ mu.r = 0))
  /\ [][/\ jobs' # jobs =>
            (mu.w /\ mu.r = 0 /\ \E t \in StartJobCalls : mpc[t] = "m_put")
        /\ \A t \in Requests :
             (mloc'[t].job # mloc[t].job \/ mloc'[t].n # mloc[t].n) =>
               (mu.r > 0 /\ ~mu.w /\ mpc[t] \in ReadLocked)]_vars

\* C33 witness: a StartJob call holds the write lock for its insert while a
\* StopJob call that found its Job is about to call Stop.
C33_Witness ==
  \E t \in StartJobCalls, u \in LookupCalls :
    /\ mpc[t] = "m_put" /\ mu.w
    /\ mpc[u] = "m_stop" /\ mloc[u].job # NilJob

\* C34: once doneCh is closed no step of Start, Stop or the waiter changes
\* the status or the exit code.
C34_TerminalStateStable ==
  [][doneCh = "closed" => (status' = status /\ exitCode' = exitCode)]_vars

\* one Start call and one Stop call at most have been made
OneStartOneStop ==
  /\ \A s \in StartCalls : s[2] > 1 => pc[s] = "s_guard"
  /\ \A p \in StopCalls : p[2] > 1 => pc[p] = "p_flag"

\* C35: with one Start call and one Stop call on the Job, no child is
\* spawned once doneCh is closed.
C35_NoSpawnAfterDone ==
  [][(OneStartOneStop /\ doneCh = "closed") => cnt'.spawns = cnt.spawns]_vars

\* C37: whenever the status is Exited the exit code has been written, once,
\* by the task that reaped the child, and it is the code of the way the
\* child ended; no step that leaves the status Exited writes the exit code.
C37_ExitCodeBeforeExited ==
  /\ [](status = StatusExited =>
          /\ cnt.codes = 1 /\ child = "reaped"
          /\ exitCode \in (IF childHow = "signal"
                             THEN {exitCodeKilledBySignal, exitCodeUnknown}
                             ELSE {0, 1, exitCodeUnknown}))
  /\ [][(status = StatusExited /\ status' = StatusExited) =>
          (exitCode' = exitCode /\ cnt'.codes = cnt.codes)]_vars

\* C37 witness: the waiter has just stored Exited, the exit code 1 being
\* there already and doneCh still open.
C37_Witness ==
  /\ status = StatusExited /\ exitCode = 1 /\ cnt.codes = 1
  /\ pc[waitForExit] = "td_out" /\ doneCh = "open"

\* C39: under fair scheduling and with a child that ends, whenever Stop
\* calls are in progress they all eventually return, whether doWait is run
\* by the waiter goroutine or by a Stop call.
C39_StopEventuallyReturns ==
  (\E p \in StopCalls : pc[p] \notin {"p_flag", "ret"})
    ~> (\A p \in StopCalls : pc[p] \in {"p_flag", "ret"})

\* C39 witness: a Stop call that killed the child of a running Job has
\* returned, doWait having been run by the waiter goroutine.
C39_Witness ==
  /\ \E p \in StopCalls :
       pc[p] = "ret" /\ loc[p].won /\ loc[p].onRunning /\ loc[p].hit
  /\ pc[waitForExit] = "ret" /\ child = "reaped" /\ cnt.bodies = 1
  /\ waitOnce = "done"

\* a Stop call that set the flag has returned and no Start call has ever
\* passed the guard
StoppedBeforeStart ==
  /\ \E p \in StopCalls : pc[p] = "ret" /\ loc[p].won
  /\ cnt.guards = 0

\* C40: when Stop has returned on a Job that no Start call had started, it
\* returned success, nothing was killed, no cgroup operation was made, the
\* status is Stopped and doneCh is closed; every Start call made from then on
\* returns the invalid-state error at its guard, having created no cgroup,
\* opened no sink and spawned nothing.
C40_StopBeforeStart ==
  /\ [](StoppedBeforeStart =>
          /\ \A p \in StopCalls : pc[p] = "ret" => ret[p] = "nil"
          /\ cnt.kills = 0 /\ cnt.deletes = 0 /\ cnt.creates = 0
          /\ cnt.spawns = 0 /\ ~cgroup /\ child = "none"
          /\ stdoutFile = "nil" /\ stderrFile = "nil"
          /\ status = StatusStopped /\ doneCh = "closed"
          /\ \A s \in StartCalls : pc[s] \in {"s_guard", "ret"})
  /\ [][StoppedBeforeStart =>
          \A s \in StartCalls :
            (pc[s] = "s_guard" /\ pc'[s] # "s_guard") =>
              /\ pc'[s] = "ret" /\ ret'[s] = "invalid"
              /\ cnt' = cnt /\ loc'[s] = NoLocals
              /\ jobVars' = jobVars]_vars

\* C40 witness: after a Stop call returned on a Job that was never started,
\* a Start call has returned the invalid-state error.
C40_Witness ==
  /\ StoppedBeforeStart
  /\ \E s \in StartCalls : pc[s] = "ret" /\ ret[s] = "invalid"
  /\ \E s \in StartCalls : pc[s] = "s_guard"

\* C36: a GetStatus call that returned a status and an exit code never
\* returned RUNNING together with an exit code other than -10.
C36_StatusReplyConsistent ==
  \A r \in LookupCalls :
    (mpc[r] = "ret" /\ mret[r] = "OK" /\ mloc[r].rpc = "GetStatus") =>
      ~(mloc[r].st = "RUNNING" /\ mloc[r].ec # exitCodeUnknown)

====
